---- MODULE Spec2Model ----
(***************************************************************************)
(* Model of src/main.py: the restaurant data pipeline                      *)
(*   load_dataset -> clean_data -> validate_data_types ->                  *)
(*   ensure_required_columns -> execute_analyses_sequential                *)
(*                                                                         *)
(* A DataFrame is a record [columns, rows]: the set of column names and    *)
(* the sequence of rows, each row a function from the column names to a    *)
(* cell.  A cell is a tagged scalar [t, n, s]: t is the Python type of the *)
(* value ("str", "int", "float", "bool", "nan"), n its number, s its text  *)
(* as a sequence of one-character strings.  A float cell carries only its  *)
(* integer part: the one consumer of a float here is astype(int), which    *)
(* truncates.                                                              *)
(***************************************************************************)
EXTENDS Integers, Sequences, FiniteSets, TLC

VARIABLES
    pc,         \* position in main(): "start", "load", "clean", "validate",
                \* "ensure", "analyses", "exit"
    env,        \* the file behind --data-file: [exists, csv, parses]
    raw,        \* the table pd.read_csv yields for that file
    df,         \* the DataFrame main() holds
    cleaned,    \* the DataFrame as clean_data returned it
    canonical,  \* the DataFrame as it entered execute_analyses_sequential
    top_n,      \* --top-n
    io,         \* analyses whose artifact cannot be written (savefig/to_csv raise)
    i,          \* index of the next entry of analysis_functions
    log,        \* per invoked analysis: [op, result], "ok" or "error"
    files,      \* names of the artifacts written
    online_reviews,  \* analyze_online_orders: the groupby mean and the bars drawn
    popular_dishes,  \* popular_dishes_by_category: category -> dish
    top_restaurant,  \* top_reviewed_restaurant: the row number written, 0 before
    grouped,         \* top_restaurants_by_category: row numbers, in output order
    status,     \* exit status of the process, -1 while it runs
    exc         \* the exception that ended the run: [type, named]

vars == <<pc, env, raw, df, cleaned, canonical, top_n, io, i, log, files,
          online_reviews, popular_dishes, top_restaurant, grouped, status, exc>>

-----------------------------------------------------------------------------
(* Cells *)

Str(s)  == [t |-> "str",   n |-> 0, s |-> s]
Int64(n) == [t |-> "int",   n |-> n, s |-> <<>>]
Float(n) == [t |-> "float", n |-> n, s |-> <<>>]
NaN     == [t |-> "nan",   n |-> 0, s |-> <<>>]
Bool(b) == [t |-> "bool",  n |-> IF b THEN 1 ELSE 0, s |-> <<>>]

-----------------------------------------------------------------------------
(* Python str methods, on sequences of characters *)

Whitespace == {" ", "\t"}

RECURSIVE lstrip(_)
lstrip(s) == IF s # <<>> /\ s[1] \in Whitespace THEN lstrip(Tail(s)) ELSE s

RECURSIVE rstrip(_)
rstrip(s) ==
    IF s # <<>> /\ s[Len(s)] \in Whitespace
    THEN rstrip(SubSeq(s, 1, Len(s) - 1)) ELSE s

strip(s) == rstrip(lstrip(s))

ToLower == ("Y" :> "y") @@ ("E" :> "e") @@ ("S" :> "s") @@ ("N" :> "n")
           @@ ("O" :> "o") @@ ("A" :> "a") @@ ("B" :> "b")

lower(s) == [k \in DOMAIN s |-> IF s[k] \in DOMAIN ToLower THEN ToLower[s[k]] ELSE s[k]]

\* str.replace(old, ''): drop every occurrence of the character old
RECURSIVE str_replace(_, _)
str_replace(s, old) ==
    IF s = <<>> THEN <<>>
    ELSE IF s[1] = old THEN str_replace(Tail(s), old)
    ELSE <<s[1]>> \o str_replace(Tail(s), old)

DigitChars == <<"0", "1", "2", "3", "4", "5", "6", "7", "8", "9">>
Digits == {DigitChars[k] : k \in DOMAIN DigitChars}
DigitValue(c) == (CHOOSE k \in DOMAIN DigitChars : DigitChars[k] = c) - 1

\* str(n) of a natural number
RECURSIVE NatStr(_)
NatStr(n) ==
    IF n < Len(DigitChars) THEN <<DigitChars[n + 1]>>
    ELSE NatStr(n \div Len(DigitChars)) \o <<DigitChars[(n % Len(DigitChars)) + 1]>>

IntStr(n) == IF n < 0 THEN <<"-">> \o NatStr(-n) ELSE NatStr(n)

\* Series.astype(str): str() of every value
astype_str(c) ==
    CASE c.t = "str"   -> c.s
      [] c.t = "int"   -> IntStr(c.n)
      [] c.t = "float" -> IntStr(c.n) \o <<".", "0">>
      [] c.t = "nan"   -> <<"n", "a", "n">>
      [] c.t = "bool"  -> IF c.n = 1 THEN <<"T", "r", "u", "e">>
                                     ELSE <<"F", "a", "l", "s", "e">>

-----------------------------------------------------------------------------
(* pd.to_numeric(..., errors='coerce') *)

IsDigits(s) == \A k \in DOMAIN s : s[k] \in Digits

RECURSIVE DigitsValue(_)
DigitsValue(s) ==
    IF s = <<>> THEN 0
    ELSE DigitsValue(SubSeq(s, 1, Len(s) - 1)) * Len(DigitChars) + DigitValue(s[Len(s)])

Signed(s) == s # <<>> /\ s[1] \in {"-", "+"}
Unsigned(s) == IF Signed(s) THEN Tail(s) ELSE s
Dots(s) == {k \in DOMAIN s : s[k] = "."}
IntPart(s) == IF Dots(s) = {} THEN s ELSE SubSeq(s, 1, (CHOOSE k \in Dots(s) : TRUE) - 1)
FracPart(s) == IF Dots(s) = {} THEN <<>> ELSE SubSeq(s, (CHOOSE k \in Dots(s) : TRUE) + 1, Len(s))

\* a decimal literal: [sign] digits [. digits], at least one digit
IsNumber(s) ==
    LET u == Unsigned(s) IN
    /\ Cardinality(Dots(u)) <= 1
    /\ IsDigits(IntPart(u))
    /\ IsDigits(FracPart(u))
    /\ Len(IntPart(u)) + Len(FracPart(u)) > 0

\* the parsed number: an int64 without a fraction, else a float (integer part kept)
ParseNumber(s) ==
    LET u == Unsigned(s)
        v == DigitsValue(IntPart(u))
        w == IF Signed(s) /\ s[1] = "-" THEN -v ELSE v
    IN  IF Dots(u) = {} THEN Int64(w) ELSE Float(w)

\* to_numeric of one text: unparsable text is coerced to NaN
to_numeric_str(s) == IF IsNumber(s) THEN ParseNumber(s) ELSE NaN

\* to_numeric of one value of any type
to_numeric(c) ==
    CASE c.t = "str"  -> to_numeric_str(c.s)
      [] c.t = "bool" -> Int64(c.n)
      [] OTHER        -> c

\* .fillna(0).astype(int)
fillna0_astype_int(c) == IF c.t = "nan" THEN Int64(0) ELSE Int64(c.n)

-----------------------------------------------------------------------------
(* DataFrame helpers *)

Column(d, c) == [k \in DOMAIN d.rows |-> d.rows[k][c]]

\* df[c] = values: assign column c row by row, creating it when absent
SetColumn(d, c, values) ==
    [columns |-> d.columns \cup {c},
     rows |-> [k \in DOMAIN d.rows |->
                 [x \in d.columns \cup {c} |->
                    IF x = c THEN values[k] ELSE d.rows[k][x]]]]

\* a scalar assigned to a column: the same value on every row
Scalar(d, v) == [k \in DOMAIN d.rows |-> v]

\* Series.apply(F) and the vectorized methods: F of every value of column c
Apply(d, c, F(_)) == [k \in DOMAIN d.rows |-> F(d.rows[k][c])]

\* df.rename(columns={old: new}, inplace=True)
Rename(d, old, new) ==
    [columns |-> (d.columns \ {old}) \cup {new},
     rows |-> [k \in DOMAIN d.rows |->
                 [x \in (d.columns \ {old}) \cup {new} |->
                    IF x = new THEN d.rows[k][old] ELSE d.rows[k][x]]]]

NoException == [type |-> "none", named |-> {}]
Raised(type, named) == [type |-> type, named |-> named]

-----------------------------------------------------------------------------
(* clean_data *)

\* .fillna("No")
fillna_No(c) == IF c.t = "nan" THEN Str(<<"N", "o">>) ELSE c

\* lambda x: x.strip().lower() == "yes"
is_yes(c) == Bool(lower(strip(c.s)) = <<"y", "e", "s">>)

\* The result of clean_data: [exc, df].  exc.type is "none" on a normal return,
\* "DataProcessingError" (exc.named: the columns the message names) or
\* "AttributeError" (x.strip() on a value that is not text; neither except
\* clause of clean_data catches it).
clean_data(d0) ==
    LET d1 == IF "Reveiw Comment" \in d0.columns
              THEN Rename(d0, "Reveiw Comment", "Review Comment") ELSE d0
        d2 == SetColumn(d1, "Number of review",
                Apply(d1, "Number of review",
                      LAMBDA x : fillna0_astype_int(to_numeric_str(
                                    str_replace(astype_str(x), ",")))))
        d3 == IF "Online Order" \in d2.columns
              THEN SetColumn(d2, "Online Order",
                     Apply(d2, "Online Order", LAMBDA x : is_yes(fillna_No(x))))
              ELSE SetColumn(d2, "Online Order", Scalar(d2, Bool(FALSE)))
        d4 == SetColumn(d3, "Catagory",
                Apply(d3, "Catagory", LAMBDA x : Str(strip(astype_str(x)))))
    IN  IF "Number of review" \notin d1.columns
        THEN [exc |-> Raised("DataProcessingError", {"Number of review"}), df |-> d1]
        ELSE IF /\ "Online Order" \in d2.columns
                /\ \E k \in DOMAIN d2.rows : fillna_No(d2.rows[k]["Online Order"]).t # "str"
        THEN [exc |-> Raised("AttributeError", {}), df |-> d2]
        ELSE IF "Catagory" \notin d3.columns
        THEN [exc |-> Raised("DataProcessingError", {"Catagory"}), df |-> d3]
        ELSE [exc |-> NoException, df |-> d4]

-----------------------------------------------------------------------------
(* validate_data_types *)

\* pd.api.types.is_numeric_dtype of a column: int64, float64 and bool are numeric,
\* a column holding any text is of dtype object
is_numeric_dtype(col) == \A k \in DOMAIN col : col[k].t \in {"int", "float", "nan", "bool"}

\* pd.api.types.is_string_dtype of a column: an object column of str values
is_string_dtype(col) == \A k \in DOMAIN col : col[k].t = "str"

\* bool(x): a number is true when non-zero (NaN is true), a text when non-empty
astype_bool(c) ==
    CASE c.t = "bool" -> c
      [] c.t = "str"  -> Bool(c.s # <<>>)
      [] c.t = "nan"  -> Bool(TRUE)
      [] OTHER        -> Bool(c.n # 0)

\* validation that normalizes 'Online Order' from its text once more
validate_data_types_renormalize(d0) ==
    LET d1 == IF ~is_numeric_dtype(Column(d0, "Number of review"))
              THEN SetColumn(d0, "Number of review",
                     Apply(d0, "Number of review", LAMBDA x : fillna0_astype_int(to_numeric(x))))
              ELSE d0
        d2 == IF ~is_string_dtype(Column(d1, "Catagory"))
              THEN SetColumn(d1, "Catagory",
                     Apply(d1, "Catagory", LAMBDA x : Str(astype_str(x))))
              ELSE d1
        d3 == IF "Online Order" \in d2.columns
              THEN SetColumn(d2, "Online Order",
                     Apply(d2, "Online Order", LAMBDA x : is_yes(Str(astype_str(x)))))
              ELSE d2
    IN  d3

validate_data_types(d0) ==
    LET d1 == IF ~is_numeric_dtype(Column(d0, "Number of review"))
              THEN SetColumn(d0, "Number of review",
                     Apply(d0, "Number of review", LAMBDA x : fillna0_astype_int(to_numeric(x))))
              ELSE d0
        d2 == IF ~is_string_dtype(Column(d1, "Catagory"))
              THEN SetColumn(d1, "Catagory",
                     Apply(d1, "Catagory", LAMBDA x : Str(astype_str(x))))
              ELSE d1
        d3 == IF "Online Order" \in d2.columns
              THEN SetColumn(d2, "Online Order",
                     Apply(d2, "Online Order", LAMBDA x : astype_bool(x)))
              ELSE d2
    IN  d3

\* ensure_required_columns: the columns the DataProcessingError would name
MissingColumns(d, required_cols) == {c \in required_cols : c \notin d.columns}

-----------------------------------------------------------------------------
(* Ordering of text, as Python compares str: by code point, then by length *)

CodePoints == <<"\t", " ", "A", "B", "a", "b", "n", "p", "t">>
Code(c) == CHOOSE k \in DOMAIN CodePoints : CodePoints[k] = c

RECURSIVE LexLess(_, _)
LexLess(s, u) ==
    IF u = <<>> THEN FALSE
    ELSE IF s = <<>> THEN TRUE
    ELSE IF s[1] = u[1] THEN LexLess(Tail(s), Tail(u))
    ELSE Code(s[1]) < Code(u[1])

\* the elements of a set of texts in ascending order
RECURSIVE Sorted(_)
Sorted(S) ==
    IF S = {} THEN <<>>
    ELSE LET m == CHOOSE x \in S : \A y \in S \ {x} : LexLess(x, y)
         IN  <<m>> \o Sorted(S \ {m})

RECURSIVE Sum(_, _)
Sum(f, S) ==
    IF S = {} THEN 0
    ELSE LET k == CHOOSE x \in S : TRUE IN f[k] + Sum(f, S \ {k})

RECURSIVE Concat(_)
Concat(ss) == IF ss = <<>> THEN <<>> ELSE Head(ss) \o Concat(Tail(ss))

-----------------------------------------------------------------------------
(* groupby *)

Review(d, k) == d.rows[k]["Number of review"].n

\* the keys of df.groupby('Catagory'): the observed categories
Categories(d) == {d.rows[k]["Catagory"].s : k \in DOMAIN d.rows}

\* the row numbers of one group
Group(d, c) == {k \in DOMAIN d.rows : d.rows[k]["Catagory"].s = c}

\* df.groupby('Online Order')['Number of review'].mean(): only the observed
\* values of 'Online Order' are keys; a mean is kept as [sum, count]
groupby_online_mean(d) ==
    LET keys == {d.rows[k]["Online Order"].n = 1 : k \in DOMAIN d.rows}
        rows(b) == {k \in DOMAIN d.rows : (d.rows[k]["Online Order"].n = 1) = b}
    IN  [b \in keys |->
           [sum |-> Sum([k \in DOMAIN d.rows |-> Review(d, k)], rows(b)),
            count |-> Cardinality(rows(b))]]

\* plt.bar(labels, online_reviews.values): the heights, in key order (False, True),
\* are broadcast against the two labels; no height at all cannot be broadcast
BarHeights(means) ==
    LET values == [k \in 1..Cardinality(DOMAIN means) |->
                     IF k = 1 /\ FALSE \in DOMAIN means THEN means[FALSE] ELSE means[TRUE]]
    IN  IF Len(values) = 2 THEN values
        ELSE IF Len(values) = 1 THEN <<values[1], values[1]>>
        ELSE <<>>

-----------------------------------------------------------------------------
(* popular_dishes_by_category *)

NoData == <<"N", "o", " ", "d", "a", "t", "a">>

\* x.mode(): the most frequent values, missing values dropped, in ascending order
mode(d, S) ==
    LET vals == {d.rows[k]["Popular food"].s : k \in {j \in S : d.rows[j]["Popular food"].t # "nan"}}
        count(v) == Cardinality({k \in S : /\ d.rows[k]["Popular food"].t # "nan"
                                           /\ d.rows[k]["Popular food"].s = v})
    IN  Sorted({v \in vals : \A w \in vals : count(w) <= count(v)})

\* the last of the modes instead of the first
popular_dish_last(d, c) ==
    IF mode(d, Group(d, c)) # <<>>
    THEN mode(d, Group(d, c))[Len(mode(d, Group(d, c)))] ELSE NoData

\* lambda x: x.mode().iloc[0] if not x.mode().empty else "No data"
popular_dish(d, c) == IF mode(d, Group(d, c)) # <<>> THEN mode(d, Group(d, c))[1] ELSE NoData

-----------------------------------------------------------------------------
(* top_reviewed_restaurant, top_restaurants_by_category *)

\* Series.idxmax(): the first row holding the maximum
idxmax(d) ==
    CHOOSE k \in DOMAIN d.rows :
        /\ \A j \in DOMAIN d.rows : Review(d, j) <= Review(d, k)
        /\ \A j \in 1..(k - 1) : Review(d, j) < Review(d, k)

\* nlargest with keep='last': equal counts in reverse row order
RECURSIVE nlargest_keep_last(_, _, _)
nlargest_keep_last(d, S, n) ==
    IF n <= 0 \/ S = {} THEN <<>>
    ELSE LET k == CHOOSE x \in S : \A y \in S \ {x} :
                     \/ Review(d, x) > Review(d, y)
                     \/ Review(d, x) = Review(d, y) /\ x > y
         IN  <<k>> \o nlargest_keep_last(d, S \ {k}, n - 1)

\* x.nlargest(n, 'Number of review'), keep='first': descending by review count,
\* equal counts in row order, the first n
RECURSIVE nlargest(_, _, _)
nlargest(d, S, n) ==
    IF n <= 0 \/ S = {} THEN <<>>
    ELSE LET k == CHOOSE x \in S : \A y \in S \ {x} :
                     \/ Review(d, x) > Review(d, y)
                     \/ Review(d, x) = Review(d, y) /\ x < y
         IN  <<k>> \o nlargest(d, S \ {k}, n - 1)

\* groupby('Catagory', group_keys=False)[...].apply(nlargest): the groups in
\* ascending key order, concatenated
top_restaurants(d, n) ==
    LET keys == Sorted(Categories(d))
    IN  Concat([g \in DOMAIN keys |-> nlargest(d, Group(d, keys[g]), n)])

-----------------------------------------------------------------------------
(* execute_analyses_sequential *)

analysis_functions ==
    <<"analyze_categories", "analyze_online_orders", "review_distribution",
      "popular_dishes_by_category", "top_reviewed_restaurant",
      "analyze_category_combinations", "top_restaurants_by_category">>

\* the loop is at entry func of analysis_functions
At(func) ==
    /\ pc = "analyses"
    /\ i <= Len(analysis_functions)
    /\ analysis_functions[i] = func

\* the loop without its try/except: the exception of func leaves the batch
TryExcept_propagates(func, ok) ==
    /\ log' = Append(log, [op |-> func, result |-> IF ok THEN "ok" ELSE "error"])
    /\ IF ok
       THEN i' = i + 1 /\ UNCHANGED <<pc, status, exc>>
       ELSE i' = i /\ pc' = "exit" /\ status' = 1 /\ exc' = Raised("Exception", {})

\* try: func(df) / except Exception: logging.error(...), then the next entry
TryExcept(func, ok) ==
    /\ log' = Append(log, [op |-> func, result |-> IF ok THEN "ok" ELSE "error"])
    /\ i' = i + 1
    /\ UNCHANGED <<pc, status, exc>>

Inputs == <<env, raw, cleaned, canonical, top_n, io>>

AnalyzeCategories ==
    /\ At("analyze_categories")
    /\ LET ok == "analyze_categories" \notin io
       IN  /\ files' = IF ok THEN files \cup {"top_categories_reviews.png"} ELSE files
           /\ TryExcept("analyze_categories", ok)
    /\ UNCHANGED <<Inputs, df, online_reviews, popular_dishes, top_restaurant, grouped>>

\* plt.bar raises ValueError when the groupby has no group at all (an empty table)
AnalyzeOnlineOrders ==
    /\ At("analyze_online_orders")
    /\ LET means == groupby_online_mean(df)
           ok == BarHeights(means) # <<>> /\ "analyze_online_orders" \notin io
       IN  /\ online_reviews' = IF ok THEN [means |-> means, bars |-> BarHeights(means)]
                                ELSE online_reviews
           /\ files' = IF ok THEN files \cup {"avg_reviews_online_order.png"} ELSE files
           /\ TryExcept("analyze_online_orders", ok)
    /\ UNCHANGED <<Inputs, df, popular_dishes, top_restaurant, grouped>>

ReviewDistribution ==
    /\ At("review_distribution")
    /\ LET ok == "review_distribution" \notin io
       IN  /\ files' = IF ok THEN files \cup {"review_distribution.png"} ELSE files
           /\ TryExcept("review_distribution", ok)
    /\ UNCHANGED <<Inputs, df, online_reviews, popular_dishes, top_restaurant, grouped>>

\* without the column 'Popular food' the function only logs a warning and returns
PopularDishesByCategory ==
    /\ At("popular_dishes_by_category")
    /\ LET has == "Popular food" \in df.columns
           ok == ~has \/ "popular_dishes_by_category" \notin io
       IN  /\ popular_dishes' = IF has /\ ok
                                 THEN [c \in Categories(df) |-> popular_dish(df, c)]
                                 ELSE popular_dishes
           /\ files' = IF has /\ ok THEN files \cup {"popular_dishes_by_category.csv"}
                       ELSE files
           /\ TryExcept("popular_dishes_by_category", ok)
    /\ UNCHANGED <<Inputs, df, online_reviews, top_restaurant, grouped>>

\* idxmax raises ValueError on an empty table
TopReviewedRestaurant ==
    /\ At("top_reviewed_restaurant")
    /\ LET ok == df.rows # <<>> /\ "top_reviewed_restaurant" \notin io
       IN  /\ top_restaurant' = IF ok THEN idxmax(df) ELSE top_restaurant
           /\ files' = IF ok THEN files \cup {"top_reviewed_restaurant.csv"} ELSE files
           /\ TryExcept("top_reviewed_restaurant", ok)
    /\ UNCHANGED <<Inputs, df, online_reviews, popular_dishes, grouped>>

\* the analysis keeping its percentages in a new column of df
AnalyzeCategoryCombinations_assigns ==
    /\ At("analyze_category_combinations")
    /\ LET ok == "analyze_category_combinations" \notin io
       IN  /\ files' = IF ok THEN files \cup {"category_impact.png"} ELSE files
           /\ TryExcept("analyze_category_combinations", ok)
    /\ df' = SetColumn(df, "Percentage", Scalar(df, Int64(0)))
    /\ UNCHANGED <<Inputs, online_reviews, popular_dishes, top_restaurant, grouped>>

AnalyzeCategoryCombinations ==
    /\ At("analyze_category_combinations")
    /\ LET ok == "analyze_category_combinations" \notin io
       IN  /\ files' = IF ok THEN files \cup {"category_impact.png"} ELSE files
           /\ TryExcept("analyze_category_combinations", ok)
    /\ UNCHANGED <<Inputs, df, online_reviews, popular_dishes, top_restaurant, grouped>>

\* selecting columns_of_interest raises KeyError without the column 'Title'
TopRestaurantsByCategory ==
    /\ At("top_restaurants_by_category")
    /\ LET ok == "Title" \in df.columns /\ "top_restaurants_by_category" \notin io
       IN  /\ grouped' = IF ok THEN top_restaurants(df, top_n) ELSE grouped
           /\ files' = IF ok THEN files \cup {"top_restaurants_by_category.csv"} ELSE files
           /\ TryExcept("top_restaurants_by_category", ok)
    /\ UNCHANGED <<Inputs, df, online_reviews, popular_dishes, top_restaurant>>

execute_analyses_sequential ==
    \/ AnalyzeCategories
    \/ AnalyzeOnlineOrders
    \/ ReviewDistribution
    \/ PopularDishesByCategory
    \/ TopReviewedRestaurant
    \/ AnalyzeCategoryCombinations
    \/ TopRestaurantsByCategory

-----------------------------------------------------------------------------
(* main *)

Outputs == <<log, files, online_reviews, popular_dishes, top_restaurant, grouped>>

\* sys.exit(1)
Exit1(e) == pc' = "exit" /\ status' = 1 /\ exc' = e

\* os.path.exists(file_path)
CheckPath ==
    /\ pc = "start"
    /\ IF ~env.exists
       THEN Exit1(NoException)
       ELSE pc' = "load" /\ UNCHANGED <<status, exc>>
    /\ UNCHANGED <<Inputs, Outputs, df, i>>

\* load_dataset: validate_csv_file, then pd.read_csv; main exits on
\* DataProcessingError
LoadDataset ==
    /\ pc = "load"
    /\ IF ~env.csv \/ ~env.parses
       THEN Exit1(Raised("DataProcessingError", {})) /\ df' = df
       ELSE pc' = "clean" /\ df' = raw /\ UNCHANGED <<status, exc>>
    /\ UNCHANGED <<Inputs, Outputs, i>>

\* df = clean_data(df): main catches DataProcessingError and exits; any other
\* exception ends the process with a traceback, which is exit status 1 as well
CleanData ==
    /\ pc = "clean"
    /\ LET r == clean_data(df)
       IN  IF r.exc.type = "none"
           THEN /\ pc' = "validate"
                /\ df' = r.df
                /\ cleaned' = r.df
                /\ UNCHANGED <<status, exc>>
           ELSE /\ Exit1(r.exc)
                /\ df' = r.df
                /\ cleaned' = cleaned
    /\ UNCHANGED <<env, raw, canonical, top_n, io, Outputs, i>>

ValidateDataTypes ==
    /\ pc = "validate"
    /\ df' = validate_data_types(df)
    /\ pc' = "ensure"
    /\ UNCHANGED <<Inputs, Outputs, i, status, exc>>

required_cols == {"Catagory", "Number of review", "Online Order"}

\* ensure_required_columns, then show_dataset_summary and the entry of
\* execute_analyses_sequential.  (The dashboard branch needs an element of
\* sys.argv equal to "streamlit", which parse_arguments rejects.)
EnsureRequiredColumns ==
    /\ pc = "ensure"
    /\ IF MissingColumns(df, required_cols) # {}
       THEN /\ Exit1(Raised("DataProcessingError", MissingColumns(df, required_cols)))
            /\ UNCHANGED <<canonical, files, i>>
       ELSE /\ pc' = "analyses"
            /\ canonical' = df
            /\ files' = files \cup {"preview_data.csv"}
            /\ i' = 1
            /\ UNCHANGED <<status, exc>>
    /\ UNCHANGED <<env, raw, cleaned, top_n, io, df, log, online_reviews,
                   popular_dishes, top_restaurant, grouped>>

\* the loop is over: generate_pdf_report when asked, then main returns
Finish ==
    /\ pc = "analyses"
    /\ i > Len(analysis_functions)
    /\ files' = IF env.generate_report
                THEN files \cup {"report_analysis_restaurants.pdf"} ELSE files
    /\ pc' = "exit"
    /\ status' = 0
    /\ UNCHANGED <<Inputs, df, i, log, online_reviews, popular_dishes,
                   top_restaurant, grouped, exc>>

-----------------------------------------------------------------------------
(* Inputs *)

MaxRowsMain == 1
MaxRowsClean == 2
MaxRowsTopN == 4
MaxRowsDish == 3
MaxRowsOnline == 2
MaxTopN == 2
\* parse_arguments: default of --top-n
DefaultTopN == 10

AllColumns == {"Title", "Catagory", "Number of review", "Online Order",
               "Popular food", "Reveiw Comment"}

Row(cat, rev, online, food) ==
    [c \in AllColumns |->
        CASE c = "Catagory"         -> cat
          [] c = "Number of review" -> rev
          [] c = "Online Order"     -> online
          [] c = "Popular food"     -> food
          [] OTHER                  -> Str(<<"t">>)]

Frame(cols, rows) ==
    [columns |-> cols, rows |-> [k \in DOMAIN rows |-> [c \in cols |-> rows[k][c]]]]

SeqsUpTo(S, n) == UNION {[1..m -> S] : m \in 0..n}

NoFrame == [columns |-> {}, rows |-> <<>>]

Mandatory == {"Catagory", "Number of review"}

ColumnSets ==
    {AllColumns,
     AllColumns \ {"Reveiw Comment"},
     AllColumns \ {"Online Order"},
     AllColumns \ {"Popular food"},
     AllColumns \ {"Title"},
     AllColumns \ {"Number of review"},
     AllColumns \ {"Catagory"},
     AllColumns \ Mandatory}

Yes == Str(<<"Y", "e", "s">>)
No  == Str(<<"N", "o">>)
CatA == Str(<<"A">>)
CatB == Str(<<"B">>)
Pizza == Str(<<"p">>)
Bagel == Str(<<"b">>)

\* raw values of 'Number of review': text with and without separators, a negative
\* number, a fraction, unparsable text, numbers, a missing value
ReviewCells ==
    {Str(<<"1", "2">>), Str(<<"1", ",", "2", "0", "0">>), Str(<<"-", "3">>),
     Str(<<"2", ".", "7">>), Str(<<"b", "a", "d">>), Str(<<",">>),
     Int64(7), Float(7), NaN}

\* raw values of 'Online Order'
OnlineCells ==
    {Yes, No, Str(<<" ", "Y", "E", "S", "\t">>), Str(<<"y", "e", "s">>),
     Str(<<"y", " ", "e", "s">>), Str(<<>>), NaN, Int64(1), Bool(TRUE)}

\* raw values of 'Catagory'
CatagoryCells == {CatA, Str(<<" ", "A", " ">>), Str(<<"A", " ", "B">>), CatB, NaN}

\* rows that differ from one base row in one cell
CleanRows ==
    {Row(CatA, r, Yes, Pizza) : r \in ReviewCells}
    \cup {Row(CatA, Str(<<"1", "2">>), o, Pizza) : o \in OnlineCells}
    \cup {Row(c, Str(<<"1", "2">>), Yes, Pizza) : c \in CatagoryCells}

CleanTables ==
    {Frame(cols, rows) : cols \in ColumnSets, rows \in SeqsUpTo(CleanRows, MaxRowsClean)}

MainRows ==
    {Row(Str(<<" ", "A">>), Str(<<"1", ",", "2">>), Yes, Pizza),
     Row(CatB, NaN, NaN, Bagel)}

\* the tables of the whole-run specification; one has a numeric 'Online Order'
MainTables ==
    {Frame(cols, rows) : cols \in ColumnSets, rows \in SeqsUpTo(MainRows, MaxRowsMain)}
    \cup {Frame(AllColumns, <<Row(CatA, Int64(7), Int64(1), Pizza)>>)}

\* canonical tables, as clean_data and validate_data_types leave them
CanonicalRow(cat, rev, online, food) ==
    [c \in (AllColumns \ {"Reveiw Comment"}) \cup {"Review Comment"} |->
        CASE c = "Catagory"         -> cat
          [] c = "Number of review" -> Int64(rev)
          [] c = "Online Order"     -> Bool(online)
          [] c = "Popular food"     -> food
          [] OTHER                  -> Str(<<"t">>)]

CanonicalFrame(rows) ==
    [columns |-> (AllColumns \ {"Reveiw Comment"}) \cup {"Review Comment"}, rows |-> rows]

TopNRows == {CanonicalRow(c, r, FALSE, NaN) : c \in {CatA, CatB}, r \in {2, 5}}
DishRows == {CanonicalRow(c, 0, TRUE, f) : c \in {CatA, CatB}, f \in {Pizza, Bagel, NaN}}
OnlineRows == {CanonicalRow(CatA, r, o, Pizza) : r \in {2, 5}, o \in BOOLEAN}

AggTables ==
    {CanonicalFrame(rows) : rows \in SeqsUpTo(TopNRows, MaxRowsTopN)
                                     \cup SeqsUpTo(DishRows, MaxRowsDish)
                                     \cup SeqsUpTo(OnlineRows, MaxRowsOnline)}

OkEnv(report) == [exists |-> TRUE, csv |-> TRUE, parses |-> TRUE, generate_report |-> report]
BadEnvs ==
    {[exists |-> FALSE, csv |-> TRUE, parses |-> TRUE, generate_report |-> FALSE],
     [exists |-> TRUE, csv |-> FALSE, parses |-> TRUE, generate_report |-> FALSE],
     [exists |-> TRUE, csv |-> TRUE, parses |-> FALSE, generate_report |-> FALSE]}

NoOutputs ==
    /\ log = <<>>
    /\ files = {}
    /\ online_reviews = [means |-> [b \in {} |-> 0], bars |-> <<>>]
    /\ popular_dishes = [c \in {} |-> <<>>]
    /\ top_restaurant = 0
    /\ grouped = <<>>
    /\ status = -1
    /\ exc = NoException

-----------------------------------------------------------------------------
(* The whole run of main *)

Init ==
    /\ pc = "start"
    /\ \/ env \in BadEnvs /\ raw = NoFrame /\ io = {}
       \/ /\ env \in {OkEnv(report) : report \in BOOLEAN}
          /\ raw \in MainTables
          /\ io \in SUBSET {analysis_functions[k] : k \in DOMAIN analysis_functions}
    /\ top_n = DefaultTopN
    /\ df = NoFrame
    /\ cleaned = NoFrame
    /\ canonical = NoFrame
    /\ i = 0
    /\ NoOutputs

Next ==
    \/ CheckPath
    \/ LoadDataset
    \/ CleanData
    \/ ValidateDataTypes
    \/ EnsureRequiredColumns
    \/ execute_analyses_sequential
    \/ Finish

Spec == Init /\ [][Next]_vars

(* clean_data and validate_data_types applied to raw tables *)

InitClean ==
    /\ pc = "clean"
    /\ env = OkEnv(FALSE)
    /\ raw \in CleanTables
    /\ df = raw
    /\ io = {}
    /\ top_n = DefaultTopN
    /\ cleaned = NoFrame
    /\ canonical = NoFrame
    /\ i = 0
    /\ NoOutputs

NextClean == CleanData \/ ValidateDataTypes

SpecClean == InitClean /\ [][NextClean]_vars

(* the analyses applied to canonical tables *)

InitAgg ==
    /\ pc = "analyses"
    /\ env = OkEnv(FALSE)
    /\ raw \in AggTables
    /\ df = raw
    /\ cleaned = raw
    /\ canonical = raw
    /\ io = {}
    /\ top_n \in 1..MaxTopN
    /\ i = 1
    /\ NoOutputs

NextAgg == execute_analyses_sequential

SpecAgg == InitAgg /\ [][NextAgg]_vars

-----------------------------------------------------------------------------
(* Properties *)

Invoked == [k \in DOMAIN log |-> log[k].op]
Done(func) == \E k \in DOMAIN log : log[k].op = func /\ log[k].result = "ok"
InBatch == pc = "analyses" \/ (pc = "exit" /\ canonical # NoFrame)

\* C1: in the batch every entry of the catalog is invoked exactly once, in catalog
\* order, whichever entries raise; an entry that raises is logged and the loop goes
\* on, and the batch returns normally (the run ends with status 0).
C1_EveryOperationRunsOnce ==
    /\ pc = "analyses" => Invoked = SubSeq(analysis_functions, 1, i - 1)
    /\ (pc = "exit" /\ canonical # NoFrame) => Invoked = analysis_functions /\ status = 0
    /\ \A k \in DOMAIN log :
          (/\ log[k].op \in io
           /\ ~(log[k].op = "popular_dishes_by_category" /\ "Popular food" \notin df.columns))
             => log[k].result = "error"

\* the first and the third analysis raised, the last one ran and succeeded
C1_Witness ==
    /\ pc = "exit"
    /\ Len(log) = Len(analysis_functions)
    /\ log[1].result = "error"
    /\ log[3].result = "error"
    /\ log[Len(log)].result = "ok"

\* C2: the run ends with a non-zero status exactly when the path does not exist,
\* the file is not a recognized table, or a mandatory column is missing.
C2_ExitStatus ==
    pc = "exit" =>
        (status # 0 <=> \/ ~env.exists
                        \/ ~env.csv
                        \/ ~env.parses
                        \/ MissingColumns(raw, Mandatory) # {})

Unparsable(c) == c.t = "nan" \/ (c.t = "str" /\ ~IsNumber(str_replace(c.s, ",")))

\* C3: after clean_data every row is still present and its review count is an
\* integer >= 0, whatever the source value was; an unparsable or missing source
\* value yields 0.
C3_ReviewCountNonNegative ==
    pc = "validate" =>
        /\ Len(df.rows) = Len(raw.rows)
        /\ \A k \in DOMAIN df.rows :
              /\ df.rows[k]["Number of review"].t = "int"
              /\ df.rows[k]["Number of review"].n >= 0
              /\ Unparsable(raw.rows[k]["Number of review"])
                    => df.rows[k]["Number of review"].n = 0

SaysYes(d, k) ==
    /\ "Online Order" \in d.columns
    /\ d.rows[k]["Online Order"].t = "str"
    /\ lower(strip(d.rows[k]["Online Order"].s)) = <<"y", "e", "s">>

\* C4: on a table with the mandatory columns cleaning does not fail, and
\* online_order is true iff the raw value, lower-cased and stripped, is "yes";
\* other text, numbers, missing values and an absent column yield false.
C4_OnlineOrderIffYes ==
    (pc \in {"validate", "exit"} /\ Mandatory \subseteq raw.columns) =>
        /\ exc.type = "none"
        /\ \A k \in DOMAIN df.rows : df.rows[k]["Online Order"] = Bool(SaysYes(raw, k))

\* C5: a table lacking mandatory columns ends the run with a fatal error before
\* any analysis runs, and the error names every missing mandatory column.
C5_NamesEveryMissingColumn ==
    (pc = "exit" /\ env.exists /\ env.csv /\ env.parses
        /\ MissingColumns(raw, Mandatory) # {}) =>
        /\ status = 1
        /\ log = <<>>
        /\ exc.type = "DataProcessingError"
        /\ exc.named = MissingColumns(raw, Mandatory)

\* C6: validate_data_types does not raise on the table clean_data returns (the
\* columns it reads exist), changes no value of it, and is idempotent.
C6_ValidateIdempotent ==
    /\ pc = "validate" => {"Number of review", "Catagory"} \subseteq df.columns
    /\ pc = "ensure" => /\ df = cleaned
                        /\ validate_data_types(validate_data_types(cleaned)) = df

\* a validated table of two rows, one ordering online, one with a repaired count
C6_Witness ==
    /\ pc = "ensure"
    /\ Len(df.rows) = MaxRowsClean
    /\ \E k \in DOMAIN df.rows : df.rows[k]["Online Order"] = Bool(TRUE)
    /\ \E k \in DOMAIN df.rows :
          Unparsable(raw.rows[k]["Number of review"]) /\ df.rows[k]["Number of review"] = Int64(0)

\* C7: no analysis changes the canonical table: during and after the batch it is
\* the table that cleaning and type validation produced.
C7_CanonicalTableUnchanged ==
    InBatch => df = canonical /\ canonical = validate_data_types(cleaned)

\* the batch ran to its end on a table with rows, some analyses failing
C7_Witness ==
    /\ pc = "exit"
    /\ status = 0
    /\ df.rows # <<>>
    /\ Done("analyze_category_combinations")
    /\ \E k \in DOMAIN log : log[k].result = "error"

Min(a, b) == IF a < b THEN a ELSE b

\* the rows of category c in the output of top_restaurants_by_category
Selected(c) ==
    {grouped[k] : k \in {j \in DOMAIN grouped : df.rows[grouped[j]]["Catagory"].s = c}}

\* C8: top_restaurants_by_category returns, for every category, its n rows with
\* the largest review count, equal counts in original row order; a category with
\* fewer than n rows contributes all of its rows, each once.
C8_TopNPerCategory ==
    Done("top_restaurants_by_category") =>
        /\ \A k \in DOMAIN grouped : grouped[k] \in DOMAIN df.rows
        /\ \A j, k \in DOMAIN grouped : j # k => grouped[j] # grouped[k]
        /\ \A c \in Categories(df) :
              /\ Cardinality(Selected(c)) = Min(top_n, Cardinality(Group(df, c)))
              /\ \A a \in Selected(c) : \A b \in Group(df, c) \ Selected(c) :
                    \/ Review(df, a) > Review(df, b)
                    \/ Review(df, a) = Review(df, b) /\ a < b

\* one category has more than n rows with equal counts across the cut, another
\* has fewer than n rows
C8_Witness ==
    /\ Done("top_restaurants_by_category")
    /\ \E c \in Categories(df) :
          /\ Cardinality(Group(df, c)) > top_n
          /\ \E a \in Selected(c) : \E b \in Group(df, c) \ Selected(c) :
                Review(df, a) = Review(df, b)
    /\ \E c \in Categories(df) :
          /\ Cardinality(Group(df, c)) < top_n
          /\ Selected(c) = Group(df, c)

\* the dishes of category c that occur most often, missing values aside
Occurrences(c, v) ==
    Cardinality({k \in Group(df, c) : df.rows[k]["Popular food"] = Str(v)})
Dishes(c) ==
    {df.rows[k]["Popular food"].s : k \in {j \in Group(df, c) : df.rows[j]["Popular food"].t = "str"}}
MostFrequent(c) == {v \in Dishes(c) : \A w \in Dishes(c) : Occurrences(c, w) <= Occurrences(c, v)}
FirstRow(c, v) ==
    CHOOSE k \in Group(df, c) :
        /\ df.rows[k]["Popular food"] = Str(v)
        /\ \A j \in Group(df, c) : df.rows[j]["Popular food"] = Str(v) => k <= j
DishesDone == Done("popular_dishes_by_category") /\ "Popular food" \in df.columns

C10_BothBucketsPresent ==
    Done("analyze_online_orders") =>
        \A b \in BOOLEAN :
            /\ b \in DOMAIN online_reviews.means
            /\ online_reviews.bars[IF b THEN 2 ELSE 1] = online_reviews.means[b]

====
